---------------------------- MODULE Spec2Model ----------------------------
(***************************************************************************)
(* kids.ansi: ANSI escape catalog, style states, state diffing             *)
(* (state_change), style merging (get_new_state) and the composable text   *)
(* expression tree (ANSITextAtom / ANSITextPair / ANSITextInterpolation).  *)
(*                                                                         *)
(* A python string is modelled as a sequence of tokens: a token is either  *)
(* a piece of literal text, the conversion slot "%s", or one whole escape  *)
(* sequence CSI <code> m.  A python dict state {'fg','bg','attrs'} is a    *)
(* record; its 'attrs' list OBJECT is shared by every dict produced by     *)
(* dict.copy(), which the model reproduces by returning, from each         *)
(* operation, the contents of the list after the operation.                *)
(***************************************************************************)
EXTENDS Integers, Sequences, FiniteSets, TLC

VARIABLES
    current,    \* get_new_state: the dict passed as `current`, after the call
    new_state,  \* get_new_state: the dict returned
    before,     \* value of the dict passed as `current`, before the call
    defs,       \* get_new_state: the `defs` of the last call
    before2,    \* value of `before` one call earlier
    defs2,      \* the `defs` one call earlier
    nmerge,     \* number of get_new_state calls made
    sa, sb,     \* state_change: the arguments of the last call
    change,     \* state_change: the value returned (or the KeyError raised)
    expr,       \* the expression built so far (a str or an ANSITextExpr)
    out,        \* result of the last str(expr)
    nops        \* number of composition operations applied to expr

vars == <<current, new_state, before, defs, before2, defs2, nmerge,
          sa, sb, change, expr, out, nops>>

mergeVars == <<current, new_state, before, defs, before2, defs2, nmerge>>
diffVars == <<sa, sb, change>>
renderVars == <<expr, out, nops>>

----------------------------------------------------------------------------
(* Bounds *)

MaxAttrs == 2       \* longest 'attrs' list of an override / of a diffed state
MaxMerges == 3      \* get_new_state calls in a chain
MaxOps == 3         \* composition operations applied to one expression

----------------------------------------------------------------------------
(* Escape code catalog *)

None == "None"

ATTR_LABELS == <<"?", "bold", "faint", "italic", "underline", "blink", "?",
                 "reverse", "conceal", "strike">>
COLORS_LABELS == <<"black", "red", "green", "yellow", "blue", "magenta",
                   "cyan", "white", "?", "default">>
CTL_LABELS == <<"reset">>

CSI == "ESC["

\* ANSI_SGR = '%dm'
ANSI_SGR(code) == ToString(code) \o "m"

\* enumerate() counts from 0, a TLA+ sequence from 1
label2code(labels, offset) ==
    [label \in {labels[i] : i \in DOMAIN labels} \ {"?"} |->
        LET idx == (CHOOSE i \in DOMAIN labels : labels[i] = label) - 1
        IN  CSI \o ANSI_SGR(offset + idx)]

\* re.sub(r'(\w+)', 'un\\1', _ATTR): "?" is not a word and stays
UNATTR_LABELS == [i \in DOMAIN ATTR_LABELS |->
                    IF ATTR_LABELS[i] = "?" THEN "?" ELSE "un" \o ATTR_LABELS[i]]

ATTR == label2code(UNATTR_LABELS, 20) @@ label2code(ATTR_LABELS, 0)
FG == label2code(COLORS_LABELS, 30)
BG == label2code(COLORS_LABELS, 40)
CTL == label2code(CTL_LABELS, 0)

\* l[2:] if l[2:] in dct else "un%s" % l.  Among the labels of the model the
\* only two leading characters that leave a key of dct are "un".
invert_attr_label(l, dct) ==
    IF \E x \in DOMAIN dct : l = "un" \o x
    THEN CHOOSE x \in DOMAIN dct : l = "un" \o x
    ELSE "un" \o l

----------------------------------------------------------------------------
(* Helpers for python lists and sets *)

SeqToSet(s) == {s[i] : i \in DOMAIN s}

\* (variant) drops every occurrence
RemoveAll(s, x) == SelectSeq(s, LAMBDA y : y # x)

\* list.remove(x): drops the first occurrence
RemoveFirst(s, x) ==
    LET i == CHOOSE k \in DOMAIN s : s[k] = x /\ \A j \in 1..(k-1) : s[j] # x
    IN  SubSeq(s, 1, i-1) \o SubSeq(s, i+1, Len(s))

\* every order in which iterating a python set may yield its elements
Orders(S) ==
    {q \in [1..Cardinality(S) -> S] : \A i, j \in 1..Cardinality(S) : q[i] = q[j] => i = j}

----------------------------------------------------------------------------
(* state_change(sa, sb) *)

DefaultState == [fg |-> "default", bg |-> "default", attrs |-> <<>>]

\* fg=None, bg=None, attrs=None (stored as [])
NoOverride == [fg |-> None, bg |-> None, attrs |-> <<>>]

\* (variant) the turn-offs come before the turn-ons
state_change_offs_first(a, b) ==
    LET colorKeys == SelectSeq(<<"fg", "bg">>, LAMBDA k : a[k] # b[k])
        ns(k) == IF k = "fg" THEN FG ELSE BG
        on == SeqToSet(b.attrs) \ SeqToSet(a.attrs)
        off == SeqToSet(a.attrs) \ SeqToSet(b.attrs)
    IN  {[err |-> "ok",
          s |-> [i \in DOMAIN colorKeys |-> ns(colorKeys[i])[b[colorKeys[i]]]]
                \o [i \in DOMAIN q |-> ATTR[invert_attr_label(q[i], ATTR)]]
                \o [i \in DOMAIN p |-> ATTR[p[i]]]]
         : p \in Orders(on), q \in Orders(off)}

\* The list of escape sequences switching state a to state b; iterating the
\* two set differences may yield any order.  A failed dict lookup raises
\* KeyError.
state_change(a, b) ==
    LET colorKeys == SelectSeq(<<"fg", "bg">>, LAMBDA k : a[k] # b[k])
        ns(k) == IF k = "fg" THEN FG ELSE BG
        sa_attrs == SeqToSet(a.attrs)
        sb_attrs == SeqToSet(b.attrs)
        on == sb_attrs \ sa_attrs
        off == sa_attrs \ sb_attrs
        bad == \/ \E i \in DOMAIN colorKeys : b[colorKeys[i]] \notin DOMAIN ns(colorKeys[i])
               \/ \E x \in on : x \notin DOMAIN ATTR
               \/ \E x \in off : invert_attr_label(x, ATTR) \notin DOMAIN ATTR
        s_color == [i \in DOMAIN colorKeys |-> ns(colorKeys[i])[b[colorKeys[i]]]]
    IN  IF bad
        THEN {[err |-> "KeyError", s |-> <<>>]}
        ELSE {[err |-> "ok",
               s |-> s_color
                     \o [i \in DOMAIN p |-> ATTR[p[i]]]
                     \o [i \in DOMAIN q |-> ATTR[invert_attr_label(q[i], ATTR)]]]
              : p \in Orders(on), q \in Orders(off)}

----------------------------------------------------------------------------
(* get_new_state(current, defs) *)

\* (variant) a label already in the list is removed: exclusive-or toggling
RECURSIVE toggle_attrs_xor(_, _)
toggle_attrs_xor(attrs, as) ==
    IF as = <<>> THEN attrs
    ELSE LET a == Head(as)
             ia == invert_attr_label(a, ATTR)
         IN  IF ia \in SeqToSet(attrs)
             THEN toggle_attrs_xor(RemoveFirst(attrs, ia), Tail(as))
             ELSE IF a \in SeqToSet(attrs)
                  THEN toggle_attrs_xor(RemoveFirst(attrs, a), Tail(as))
                  ELSE toggle_attrs_xor(Append(attrs, a), Tail(as))

\* (variant) every label is appended, the inverse is never looked for
toggle_attrs_append(attrs, as) == attrs \o as

\* the loop over defs["attrs"], run on the list object new_state["attrs"]
RECURSIVE toggle_attrs(_, _)
toggle_attrs(attrs, as) ==
    IF as = <<>> THEN attrs
    ELSE LET a == Head(as)
             ia == invert_attr_label(a, ATTR)
         IN  IF ia \in SeqToSet(attrs)
             THEN toggle_attrs(RemoveFirst(attrs, ia), Tail(as))
             ELSE toggle_attrs(Append(attrs, a), Tail(as))

\* ret: the dict returned; cur: the dict `current` as the call leaves it.
\* dict.copy() is shallow: new_state["attrs"] is the list current["attrs"].
get_new_state(cur, d) ==
    LET attrs == toggle_attrs(cur.attrs, d.attrs)
        pick(l) == IF d[l] # None THEN d[l] ELSE cur[l]
    IN  [ret |-> [fg |-> pick("fg"), bg |-> pick("bg"), attrs |-> attrs],
         cur |-> [cur EXCEPT !.attrs = attrs]]

----------------------------------------------------------------------------
(* The expression tree.  A plain python str is a node of kind "str". *)

Str(t) == [kind |-> "str", text |-> t]

\* ANSITextExpr.__init__ / ANSITextAtom.__init__
ANSITextAtom(text, o) ==
    [kind |-> "atom", text |-> text, fg |-> o.fg, bg |-> o.bg, attrs |-> o.attrs]

\* ANSITextPair.__init__
ANSITextPair(car, cdr, o) ==
    [kind |-> "pair", car |-> car, cdr |-> cdr,
     fg |-> o.fg, bg |-> o.bg, attrs |-> o.attrs]

\* ANSITextInterpolation.__init__; data is a tuple (tuple = TRUE) or one value
ANSITextInterpolation(text, data, tuple, o) ==
    [kind |-> "interp", text |-> text, data |-> data, tuple |-> tuple,
     fg |-> o.fg, bg |-> o.bg, attrs |-> o.attrs]

\* the override a node carries
Override(n) == [fg |-> n.fg, bg |-> n.bg, attrs |-> n.attrs]

\* template % args on rendered strings: each "%s" takes the next argument;
\* too few or too many arguments raise TypeError
RECURSIVE interpolate(_, _)
interpolate(tmpl, args) ==
    IF tmpl = <<>>
    THEN [err |-> IF args = <<>> THEN "ok" ELSE "TypeError", s |-> <<>>]
    ELSE IF Head(tmpl) = "%s"
         THEN IF args = <<>>
              THEN [err |-> "TypeError", s |-> <<>>]
              ELSE LET r == interpolate(Tail(tmpl), Tail(args))
                   IN  [err |-> r.err, s |-> Head(args) \o r.s]
         ELSE LET r == interpolate(Tail(tmpl), args)
              IN  [err |-> r.err, s |-> <<Head(tmpl)>> \o r.s]

(***************************************************************************)
(* Rendering.  Every operator returns the set of its possible results      *)
(*   [err, s, attrs, log]                                                  *)
(* err: "ok" or the exception raised; s: the string; attrs: the contents   *)
(* of the one 'attrs' list of this rendering when the call returns; log:   *)
(* for each mk_or_str call made, in order, the path of its node, its kind   *)
(* and override, and the value of the prev_state it was given.             *)
(***************************************************************************)
RECURSIVE fmt(_, _, _)
RECURSIVE mk_or_str(_, _, _)
RECURSIVE mk_data(_, _, _, _)

Raised(e, attrs, log) == [err |-> e, s |-> <<>>, attrs |-> attrs, log |-> log]

LogEntry(n, ps, path) ==
    [path |-> path, ps |-> ps, kind |-> n.kind,
     o |-> IF n.kind = "str" THEN NoOverride ELSE Override(n)]

\* s.fmt(ps) if isinstance(s, ANSITextExpr) else ("%s" % s)
mk_or_str(s, ps, path) ==
    IF s.kind = "str"
    THEN {[err |-> "ok", s |-> s.text, attrs |-> ps.attrs,
           log |-> <<LogEntry(s, ps, path)>>]}
    ELSE {[r EXCEPT !.log = <<LogEntry(s, ps, path)>> \o @] : r \in fmt(s, ps, path)}

\* ANSITextAtom.mk
mk_atom(n, ps, path) == mk_or_str(n.text, ps, path \o <<"text">>)

\* ANSITextPair.mk: car, then cdr, both handed the same dict
mk_pair(n, ps, path) ==
    UNION {
        IF r1.err # "ok" THEN {r1}
        ELSE {IF r2.err # "ok"
              THEN Raised(r2.err, r2.attrs, r1.log \o r2.log)
              ELSE [err |-> "ok", s |-> r1.s \o r2.s, attrs |-> r2.attrs,
                    log |-> r1.log \o r2.log]
              : r2 \in mk_or_str(n.cdr, [ps EXCEPT !.attrs = r1.attrs], path \o <<"cdr">>)}
        : r1 \in mk_or_str(n.car, ps, path \o <<"car">>)}

\* tuple(mk_or_str(e, prev_state) for e in self.data), from element i on;
\* ss is the tuple of rendered strings
mk_data(data, i, ps, path) ==
    IF i > Len(data)
    THEN {[err |-> "ok", ss |-> <<>>, attrs |-> ps.attrs, log |-> <<>>]}
    ELSE UNION {
        IF r.err # "ok"
        THEN {[err |-> r.err, ss |-> <<>>, attrs |-> r.attrs, log |-> r.log]}
        ELSE {[err |-> rest.err,
               ss |-> IF rest.err = "ok" THEN <<r.s>> \o rest.ss ELSE <<>>,
               attrs |-> rest.attrs, log |-> r.log \o rest.log]
              : rest \in mk_data(data, i + 1, [ps EXCEPT !.attrs = r.attrs], path)}
        : r \in mk_or_str(data[i], ps, path \o <<"data" \o ToString(i)>>)}

\* ANSITextInterpolation.mk: the template, then the data, then `%`
mk_interp(n, ps, path) ==
    UNION {
        IF t.err # "ok" THEN {t}
        ELSE {IF d.err # "ok"
              THEN Raised(d.err, d.attrs, t.log \o d.log)
              ELSE LET r == interpolate(t.s, d.ss)
                   IN  [err |-> r.err, s |-> IF r.err = "ok" THEN r.s ELSE <<>>,
                        attrs |-> d.attrs, log |-> t.log \o d.log]
              : d \in mk_data(n.data, 1, [ps EXCEPT !.attrs = t.attrs], path)}
        : t \in mk_or_str(n.text, ps, path \o <<"text">>)}

mk(n, ps, path) ==
    CASE n.kind = "atom" -> mk_atom(n, ps, path)
      [] n.kind = "pair" -> mk_pair(n, ps, path)
      [] n.kind = "interp" -> mk_interp(n, ps, path)

\* (variant) close switches to the default state, not to prev_state
fmt_close_default(n, prev_state, path) ==
    LET g == get_new_state(prev_state, Override(n))
    IN  UNION {
            IF setup.err # "ok" THEN {Raised(setup.err, g.ret.attrs, <<>>)}
            ELSE UNION {
                IF close.err # "ok" THEN {Raised(close.err, g.ret.attrs, <<>>)}
                ELSE {IF r.err # "ok" THEN r
                      ELSE [r EXCEPT !.s = setup.s \o r.s \o close.s]
                      : r \in mk(n, g.ret, path)}
                : close \in state_change(g.ret, DefaultState)}
            : setup \in state_change(g.cur, g.ret)}

\* ANSITextExpr.fmt: get_new_state has run on the list of prev_state when
\* the two state_change calls read it
fmt(n, prev_state, path) ==
    LET g == get_new_state(prev_state, Override(n))
    IN  UNION {
            IF setup.err # "ok" THEN {Raised(setup.err, g.ret.attrs, <<>>)}
            ELSE UNION {
                IF close.err # "ok" THEN {Raised(close.err, g.ret.attrs, <<>>)}
                ELSE {IF r.err # "ok" THEN r
                      ELSE [r EXCEPT !.s = setup.s \o r.s \o close.s]
                      : r \in mk(n, g.ret, path)}
                : close \in state_change(g.ret, g.cur)}
            : setup \in state_change(g.cur, g.ret)}

\* ANSITextExpr.__str__: fmt from a fresh default state
str(n) ==
    {[r EXCEPT !.log = <<LogEntry(n, DefaultState, <<>>)>> \o @]
     : r \in fmt(n, DefaultState, <<>>)}

----------------------------------------------------------------------------
(* Inputs *)

AttrsUsed == {"bold", "unbold", "italic"}

AttrLists(n) == UNION {[1..k -> AttrsUsed] : k \in 0..n}

\* the overrides merged in a chain of get_new_state calls
MergeDefs ==
    {[NoOverride EXCEPT !.attrs = l] :
        l \in {x \in AttrLists(MaxAttrs) : x # <<>> /\ "italic" \notin SeqToSet(x)}}
    \cup {[NoOverride EXCEPT !.attrs = <<"italic">>],
          [NoOverride EXCEPT !.fg = "red"], [NoOverride EXCEPT !.bg = "yellow"],
          [fg |-> "blue", bg |-> None, attrs |-> <<"bold">>]}

\* a list get_new_state can have built: no label together with its inverse
Coherent(l) ==
    \A i \in DOMAIN ATTR_LABELS :
        ~ (ATTR_LABELS[i] \in SeqToSet(l) /\ UNATTR_LABELS[i] \in SeqToSet(l))

DiffStates ==
    {[fg |-> f, bg |-> b, attrs |-> l] :
        f \in {"default", "blue", "red"}, b \in {"default", "yellow"},
        l \in {x \in AttrLists(MaxAttrs) : Coherent(x)}}

\* the strings an expression starts from: a text, a one-slot template
InitTexts == {<<"a">>, <<"<", "%s", ">">>}

Style(f, b, l) == [fg |-> f, bg |-> b, attrs |-> l]

\* the overrides given to aformat(expr, ...); "bogus" is in no catalog
Styles ==
    {Style("blue", None, <<>>), Style("red", None, <<>>),
     Style(None, "yellow", <<>>), Style(None, None, <<"bold">>),
     Style("bogus", None, <<>>), Style(None, None, <<"bogus">>)}

You(o) == ANSITextAtom(Str(<<"You">>), o)

\* right operands of +
AddOperands ==
    {Str(<<"b">>), You(Style("red", None, <<>>)), You(Style("default", None, <<>>)),
     You(Style(None, None, <<"bold">>)), You(Style(None, None, <<"unbold">>))}

\* left operands of +
RaddOperands == {Str(<<"b">>), You(Style("red", None, <<>>))}

\* right operands of %: [data, tuple]
ModOperands ==
    {[data |-> <<You(Style("red", None, <<>>))>>, tuple |-> FALSE],
     [data |-> <<You(Style("red", None, <<>>)), Str(<<"b">>)>>, tuple |-> TRUE],
     [data |-> <<You(Style(None, None, <<"unbold">>))>>, tuple |-> TRUE]}

\* arguments of ANSITextInterpolation(expr, data, ...): [data, tuple, o]
InterpolationArgs ==
    {[data |-> <<You(Style("red", None, <<>>))>>, tuple |-> FALSE,
      o |-> Style("blue", None, <<>>)],
     [data |-> <<You(Style(None, None, <<"unbold">>))>>, tuple |-> FALSE,
      o |-> Style(None, None, <<"bold">>)]}

----------------------------------------------------------------------------
(* Actions *)

Building == nops < MaxOps /\ out.err = "none"

\* expr = aformat(expr, fg, bg, attrs)
Aformat(o) ==
    /\ Building
    /\ expr' = ANSITextAtom(expr, o)
    /\ nops' = nops + 1
    /\ UNCHANGED <<out, mergeVars, diffVars>>

\* expr = expr + v, through __add__ or __radd__ (one of the two is a node)
Add(v) ==
    /\ Building
    /\ expr.kind # "str" \/ v.kind # "str"
    /\ expr' = ANSITextPair(expr, v, NoOverride)
    /\ nops' = nops + 1
    /\ UNCHANGED <<out, mergeVars, diffVars>>

\* expr = v + expr
Radd(v) ==
    /\ Building
    /\ expr.kind # "str" \/ v.kind # "str"
    /\ expr' = ANSITextPair(v, expr, NoOverride)
    /\ nops' = nops + 1
    /\ UNCHANGED <<out, mergeVars, diffVars>>

\* expr = expr % data, expr being a node
Mod(m) ==
    /\ Building
    /\ expr.kind # "str"
    /\ expr' = ANSITextInterpolation(expr, m.data, m.tuple, NoOverride)
    /\ nops' = nops + 1
    /\ UNCHANGED <<out, mergeVars, diffVars>>

\* expr = ANSITextInterpolation(expr, data, fg, bg, attrs)
Interpolation(m) ==
    /\ Building
    /\ expr' = ANSITextInterpolation(expr, m.data, m.tuple, m.o)
    /\ nops' = nops + 1
    /\ UNCHANGED <<out, mergeVars, diffVars>>

\* out = str(expr)
StrCall ==
    /\ out.err = "none"
    /\ expr.kind # "str"
    /\ \E r \in str(expr) : out' = [err |-> r.err, s |-> r.s, log |-> r.log]
    /\ UNCHANGED <<expr, nops, mergeVars, diffVars>>

\* new_state = get_new_state(prev_state, defs), prev_state being the state
\* the previous call returned (ANSITextExpr.fmt hands new_state down)
GetNewStateCall(d) ==
    /\ nmerge < MaxMerges
    /\ LET g == get_new_state(new_state, d)
       IN  /\ new_state' = g.ret
           /\ current' = g.cur
    /\ before' = new_state
    /\ defs' = d
    /\ before2' = before
    /\ defs2' = defs
    /\ nmerge' = nmerge + 1
    /\ UNCHANGED <<diffVars, renderVars>>

\* change = state_change(sa, sb), on arguments not yet diffed
StateChangeCall ==
    /\ change.err = "none"
    /\ change' \in state_change(sa, sb)
    /\ UNCHANGED <<sa, sb, mergeVars, renderVars>>

----------------------------------------------------------------------------
(* Specifications *)

InitMerge ==
    /\ current = DefaultState
    /\ new_state = DefaultState
    /\ before = DefaultState
    /\ before2 = DefaultState
    /\ defs = NoOverride
    /\ defs2 = NoOverride
    /\ nmerge = 0

InitDiff ==
    /\ sa = DefaultState
    /\ sb = DefaultState
    /\ change = [err |-> "none", s |-> <<>>]

\* any two states as the arguments of state_change
InitDiffInputs ==
    /\ sa \in DiffStates
    /\ sb \in DiffStates
    /\ change = [err |-> "none", s |-> <<>>]

InitRender ==
    /\ expr = Str(<<>>)
    /\ out = [err |-> "none", s |-> <<>>, log |-> <<>>]
    /\ nops = 0

\* an expression starts as a plain string
InitRenderInputs ==
    /\ expr \in {Str(t) : t \in InitTexts}
    /\ out = [err |-> "none", s |-> <<>>, log |-> <<>>]
    /\ nops = 0

Init == InitMerge /\ InitDiff /\ InitRender

NextMerge == \E d \in MergeDefs : GetNewStateCall(d)

NextDiff == StateChangeCall

NextRender ==
    \/ \E o \in Styles : Aformat(o)
    \/ \E v \in AddOperands : Add(v)
    \/ \E v \in RaddOperands : Radd(v)
    \/ \E m \in ModOperands : Mod(m)
    \/ \E m \in InterpolationArgs : Interpolation(m)
    \/ StrCall

InitRenderSpec == InitMerge /\ InitDiff /\ InitRenderInputs

SpecRender == InitRenderSpec /\ [][NextRender]_vars

SpecMerge == Init /\ [][NextMerge]_vars

InitDiffSpec == InitMerge /\ InitDiffInputs /\ InitRender

SpecDiff == InitDiffSpec /\ [][NextDiff]_vars

----------------------------------------------------------------------------
(* Properties of state_change *)

\* the paired inverse of a catalog attribute label, read off the two label lists
InvLabel(a) ==
    IF \E i \in DOMAIN ATTR_LABELS : ATTR_LABELS[i] = a
    THEN UNATTR_LABELS[CHOOSE i \in DOMAIN ATTR_LABELS : ATTR_LABELS[i] = a]
    ELSE ATTR_LABELS[CHOOSE i \in DOMAIN UNATTR_LABELS : UNATTR_LABELS[i] = a]

AttrOnly(d, a) == d = [NoOverride EXCEPT !.attrs = <<a>>]

\* C3: state_change(sa, sb) is the code of sb.fg if the fg differs, then the
\* code of sb.bg if the bg differs, then the codes of the attributes of sb
\* missing in sa, then the codes of the inverses of the attributes of sa
\* missing in sb, and nothing else: no code for an unchanged axis, never the
\* reset code, and the empty list when sa = sb.
DiffContentAndOrder ==
    change.err # "none" =>
        /\ change.err = "ok"
        /\ LET s == change.s
               c == (IF sa.fg # sb.fg THEN <<FG[sb.fg]>> ELSE <<>>)
                    \o (IF sa.bg # sb.bg THEN <<BG[sb.bg]>> ELSE <<>>)
               on == {ATTR[a] : a \in SeqToSet(sb.attrs) \ SeqToSet(sa.attrs)}
               off == {ATTR[InvLabel(a)] : a \in SeqToSet(sa.attrs) \ SeqToSet(sb.attrs)}
               nc == Len(c)
               non == Cardinality(on)
           IN  /\ Len(s) = nc + non + Cardinality(off)
               /\ SubSeq(s, 1, nc) = c
               /\ {s[i] : i \in (nc+1)..(nc+non)} = on
               /\ {s[i] : i \in (nc+non+1)..Len(s)} = off
               /\ CTL["reset"] \notin SeqToSet(s)
               /\ (sa = sb => s = <<>>)

\* fg blue -> default under an unchanged yellow bg, bold off and italic on
DiffWitness ==
    /\ sa = [fg |-> "blue", bg |-> "yellow", attrs |-> <<"bold">>]
    /\ sb = [fg |-> "default", bg |-> "yellow", attrs |-> <<"italic">>]
    /\ change = [err |-> "ok", s |-> <<"ESC[39m", "ESC[3m", "ESC[21m">>]

----------------------------------------------------------------------------
(* Properties of get_new_state *)

\* C4: merging {attrs: [a]} and then {attrs: [inv(a)]} gives back the
\* attribute set the state had before the two merges.
AttributeCancellation ==
    \A a \in AttrsUsed :
        (nmerge >= 2 /\ AttrOnly(defs2, a) /\ AttrOnly(defs, InvLabel(a)))
            => SeqToSet(new_state.attrs) = SeqToSet(before2.attrs)

\* italic stays active while bold is toggled on and cancelled by unbold
AttributeCancellationWitness ==
    /\ nmerge >= 3
    /\ AttrOnly(defs2, "bold")
    /\ AttrOnly(defs, "unbold")
    /\ "italic" \in SeqToSet(before2.attrs)
    /\ "bold" \in SeqToSet(before.attrs)
    /\ SeqToSet(new_state.attrs) = {"italic"}

MergeLeavesCurrentUnchanged == nmerge >= 1 => current = before

\* C10: in every state reached from the default state by merges, fg and bg
\* are colour labels of the catalog and attrs holds no label together with
\* its paired inverse.
StateInvariant ==
    /\ new_state.fg \in DOMAIN FG
    /\ new_state.bg \in DOMAIN BG
    /\ \A i \in DOMAIN ATTR_LABELS :
        ~ (ATTR_LABELS[i] \in SeqToSet(new_state.attrs)
           /\ UNATTR_LABELS[i] \in SeqToSet(new_state.attrs))

\* a merge that cancelled an active attribute and left another one active
StateInvariantWitness ==
    /\ nmerge >= 2
    /\ new_state.fg = "blue"
    /\ Len(new_state.attrs) < Len(before.attrs)
    /\ new_state.attrs # <<>>

----------------------------------------------------------------------------
(* Properties of rendering *)

Rendered == out.err # "none"

Count(s, x) == Cardinality({i \in DOMAIN s : s[i] = x})

ColourOnly(n) == n.fg \in DOMAIN FG /\ n.bg = None /\ n.attrs = <<>>

\* expr is aformat(text1 + aformat(text2, fg=c) + text3, fg=p)
IsNested ==
    /\ expr.kind = "atom" /\ ColourOnly(expr)
    /\ expr.text.kind = "pair" /\ Override(expr.text) = NoOverride
    /\ expr.text.cdr.kind = "str"
    /\ expr.text.car.kind = "pair" /\ Override(expr.text.car) = NoOverride
    /\ expr.text.car.car.kind = "str"
    /\ expr.text.car.cdr.kind = "atom" /\ ColourOnly(expr.text.car.cdr)
    /\ expr.text.car.cdr.text.kind = "str"
    /\ expr.fg # expr.text.car.cdr.fg
    /\ expr.fg # "default"

NestedOutput ==
    <<FG[expr.fg]>> \o expr.text.car.car.text
    \o <<FG[expr.text.car.cdr.fg]>> \o expr.text.car.cdr.text.text
    \o <<FG[expr.fg]>> \o expr.text.cdr.text
    \o <<FG["default"]>>

\* C1 as stated: the nested expression renders from the default state as
\* FG[p] text1 FG[c] text2 FG[p] text3 FG[default], and the code of default
\* occurs once only, as the last element.
NestedRestorationDefaultOnce ==
    (Rendered /\ IsNested) =>
        /\ out.err = "ok"
        /\ out.s = NestedOutput
        /\ out.s[Len(out.s)] = FG["default"]
        /\ Count(out.s, FG["default"]) = 1

\* C1 amended: the nested expression renders from the default state as
\* FG[p] text1 FG[c] text2 FG[p] text3 FG[default]; the code of default is
\* the last element, and it occurs once only when c is not default (with
\* c = default it is also the entry code of the inner atom).
NestedRestoration ==
    (Rendered /\ IsNested) =>
        /\ out.err = "ok"
        /\ out.s = NestedOutput
        /\ out.s[Len(out.s)] = FG["default"]
        /\ Count(out.s, FG["default"]) =
                IF expr.text.car.cdr.fg = "default" THEN 2 ELSE 1

\* aformat("a" + aformat("You", fg="red") + "b", fg="blue")
NestedRestorationWitness ==
    /\ IsNested
    /\ expr.fg = "blue"
    /\ expr.text.car.cdr.fg = "red"
    /\ out = [out EXCEPT !.err = "ok",
                         !.s = <<"ESC[34m", "a", "ESC[31m", "You",
                                 "ESC[34m", "b", "ESC[39m">>]

\* C2: a node whose override toggles the one attribute a, rendered from the
\* default state, yields entry + body + exit with the code of a in the entry
\* and the code of inv(a) in the exit.
AttributeEntryExit ==
    (out.err = "ok" /\ expr.fg = None /\ expr.bg = None
        /\ Len(expr.attrs) = 1 /\ expr.attrs[1] \in DOMAIN ATTR)
        => /\ Len(out.s) >= 2
           /\ out.s[1] = ATTR[expr.attrs[1]]
           /\ out.s[Len(out.s)] = ATTR[InvLabel(expr.attrs[1])]

\* a node of the tree carries a label that is in no catalog
RECURSIVE HasUnknownLabel(_)
HasUnknownLabel(n) ==
    /\ n.kind # "str"
    /\ \/ n.fg \notin DOMAIN FG \cup {None}
       \/ n.bg \notin DOMAIN BG \cup {None}
       \/ \E i \in DOMAIN n.attrs : n.attrs[i] \notin DOMAIN ATTR
       \/ n.kind = "atom" /\ HasUnknownLabel(n.text)
       \/ n.kind = "pair" /\ (HasUnknownLabel(n.car) \/ HasUnknownLabel(n.cdr))
       \/ n.kind = "interp"
            /\ (HasUnknownLabel(n.text)
                \/ \E i \in DOMAIN n.data : HasUnknownLabel(n.data[i]))

\* C6: no rendering of an expression carrying an unknown label, on any of
\* fg, bg and attrs, completes with an output string.
UnknownLabelRejected == (Rendered /\ HasUnknownLabel(expr)) => out.err # "ok"

\* log entry j is a mk_or_str call made by the mk of the node of entry i
ChildCall(i, j) ==
    /\ Len(out.log[j].path) = Len(out.log[i].path) + 1
    /\ SubSeq(out.log[j].path, 1, Len(out.log[i].path)) = out.log[i].path

\* C7: an interpolation with override O rendered under S renders its
\* template and each of its arguments under merge(S, O), and a top-level
\* one yields entry + body + exit with entry = diff(S, merge(S, O)) and
\* exit = diff(merge(S, O), S).
InterpolationUnderOwnState ==
    out.err = "ok" =>
        /\ \A i, j \in DOMAIN out.log :
            (out.log[i].kind = "interp" /\ ChildCall(i, j))
                => out.log[j].ps = get_new_state(out.log[i].ps, out.log[i].o).ret
        /\ expr.kind = "interp" =>
            LET S == DefaultState
                N == get_new_state(S, Override(expr)).ret
            IN  \E entry \in state_change(S, N), exit \in state_change(N, S) :
                    /\ Len(out.s) >= Len(entry.s) + Len(exit.s)
                    /\ SubSeq(out.s, 1, Len(entry.s)) = entry.s
                    /\ SubSeq(out.s, Len(out.s) - Len(exit.s) + 1, Len(out.s)) = exit.s

\* C9: the right child of a pair built by + is rendered against the state
\* the pair was rendered under, whatever its left child carries.
SiblingIndependence ==
    (Rendered /\ ~ HasUnknownLabel(expr)) =>
        \A i, j \in DOMAIN out.log :
            (/\ out.log[i].kind = "pair"
             /\ out.log[i].o = NoOverride
             /\ out.log[j].path = out.log[i].path \o <<"cdr">>)
                => out.log[j].ps = out.log[i].ps

============================================================================
